---- MODULE Spec2Model ----
(***************************************************************************)
(* Model of the weewx-seg uploader (bin/user/seg.py): the SEG service      *)
(* (configuration check, queue, worker thread, event binding), the         *)
(* SEGThread worker (process_record, get_data, check_response) and the     *)
(* naming helpers (_obfuscate, _compat, _get_units_label, _get_prefix,     *)
(* _get_template).                                                         *)
(*                                                                         *)
(* Python values are modelled as strings: a number is its decimal text     *)
(* ("50.0"), None is the string None below, a dict is a function whose     *)
(* DOMAIN is the set of keys present.                                      *)
(***************************************************************************)
EXTENDS Integers, Sequences, FiniteSets, TLC

VARIABLES
    config_dict,     \* the [StdRESTful][[SmartEnergyGroups]] options given to SEG.__init__
    svc,             \* "init" | "disabled" (returned at line 162) | "running" | "raised"
    site_dict,       \* site_dict as it stands when SEG.__init__ ends
    archive_queue,   \* self.archive_queue: NoQueue, or the records waiting
    archive_thread,  \* self.archive_thread: NoThread, or the SEGThread attributes
    bound,           \* NEW_ARCHIVE_RECORD is bound to new_archive_record
    templates,       \* SEGThread.templates
    pc,              \* worker: "wait" (on the queue) | "post" (inside post_with_retries)
    record,          \* the record the worker passed to get_data last
    record_in,       \* that record as it was dequeued
    data,            \* what get_data returned for it
    uploaders,       \* the actors that have an HTTP attempt sequence in flight
    log,             \* the diagnostics written by the last step
    targs,           \* arguments of a direct _get_template call
    tresult          \* its result

vars == <<config_dict, svc, site_dict, archive_queue, archive_thread, bound,
          templates, pc, record, record_in, data, uploaders, log, targs, tresult>>

svcVars == <<config_dict, svc, site_dict, archive_queue, archive_thread, bound,
             templates, pc, record, record_in, data, uploaders, log>>

-----------------------------------------------------------------------------
(* Bounds *)

\* longest token configured
MaxTokenLen == 5
\* most records waiting in the queue
MaxQueue == 1

-----------------------------------------------------------------------------
(* Python values *)

None == "<None>"
EmptyDict == <<>>
NoRecord == <<>>
NoThread == <<>>
NoQueue == << <<>> >>
NoData == "<no call>"
NoResult == [pending |-> "yes"]

Max(a, b) == IF a >= b THEN a ELSE b

\* d.get(k, dflt)
Get(d, k, dflt) == IF k \in DOMAIN d THEN d[k] ELSE dflt

\* d[k] = v
Put(d, k, v) == [x \in DOMAIN d \cup {k} |-> IF x = k THEN v ELSE d[x]]

\* d.pop(k)
Pop(d, k) == [x \in DOMAIN d \ {k} |-> d[x]]

\* d.setdefault(k, v)
SetDefault(d, k, v) == IF k \in DOMAIN d THEN d ELSE Put(d, k, v)

\* c * n
RECURSIVE Rep(_, _)
Rep(c, n) == IF n <= 0 THEN "" ELSE c \o Rep(c, n - 1)

\* s.find(sub) >= 0
Contains(s, sub) ==
    \E i \in 1..(Len(s) - Len(sub) + 1) : SubSeq(s, i, i + Len(sub) - 1) = sub

\* ''.join(seq)
RECURSIVE Join(_)
Join(seq) == IF seq = <<>> THEN "" ELSE Head(seq) \o Join(Tail(seq))

-----------------------------------------------------------------------------
(* weewx.units, as far as seg.py calls it *)

US == "1"
METRIC == "16"
METRICWX == "17"

unit_constants == [US |-> US, METRIC |-> METRIC, METRICWX |-> METRICWX]

obs_group_dict ==
    [dateTime |-> "group_time", outTemp |-> "group_temperature",
     barometer |-> "group_pressure", outHumidity |-> "group_percent",
     dayRain |-> "group_rain", windSpeed |-> "group_speed"]

std_units ==
    (US :> [group_time |-> "unix_epoch", group_temperature |-> "degree_F",
            group_pressure |-> "inHg", group_percent |-> "percent",
            group_rain |-> "inch", group_speed |-> "mile_per_hour"])
    @@ (METRIC :> [group_time |-> "unix_epoch", group_temperature |-> "degree_C",
                   group_pressure |-> "mbar", group_percent |-> "percent",
                   group_rain |-> "cm", group_speed |-> "km_per_hour"])
    @@ (METRICWX :> [group_time |-> "unix_epoch", group_temperature |-> "degree_C",
                     group_pressure |-> "mbar", group_percent |-> "percent",
                     group_rain |-> "mm", group_speed |-> "meter_per_second"])

\* the unit type of getStandardUnitType(unit_system, obs); None for an
\* observation that belongs to no unit group (usUnits)
getStandardUnitType(unit_system, obs) ==
    IF obs \in DOMAIN obs_group_dict
    THEN std_units[unit_system][obs_group_dict[obs]]
    ELSE None

\* the physical quantities the model's records hold, each in every unit
Quantities ==
    { [degree_F |-> "50.0", degree_C |-> "10.0"],
      [inHg |-> "30.0", mbar |-> "1015.9"],
      [inch |-> "1.0", cm |-> "2.54", mm |-> "25.4"] }

\* weewx.units.convert((v, from_unit, group), to_unit)[0]
convert(v, from_unit, to_unit) ==
    IF v = None \/ from_unit = to_unit \/ from_unit = None THEN v
    ELSE (CHOOSE q \in Quantities : from_unit \in DOMAIN q /\ q[from_unit] = v)[to_unit]

\* weewx.units.to_std_system(record, unit_system)
to_std_system(r, unit_system) ==
    IF r["usUnits"] = unit_system THEN r
    ELSE [k \in DOMAIN r |->
            IF k = "usUnits" THEN unit_system
            ELSE convert(r[k], getStandardUnitType(r["usUnits"], k),
                         getStandardUnitType(unit_system, k))]

-----------------------------------------------------------------------------
(* Naming helpers *)

_obfuscate(s) == Rep("X", Len(s) - 4) \o SubSeq(s, Max(1, Len(s) - 3), Len(s))

_compat(d, old_label, new_label) ==
    IF old_label \in DOMAIN d /\ ~(new_label \in DOMAIN d)
    THEN Pop(SetDefault(d, new_label, d[old_label]), old_label)
    ELSE d

UNIT_REDUCTIONS ==
    [degree_F |-> "F", degree_C |-> "C", inch |-> "in",
     mile_per_hour |-> "mph", mile_per_hour2 |-> "mph",
     km_per_hour |-> "kph", km_per_hour2 |-> "kph",
     meter_per_second |-> "mps", meter_per_second2 |-> "mps",
     degree_compass |-> None, watt_per_meter_squared |-> "Wpm2",
     uv_index |-> None, percent |-> None, unix_epoch |-> None]

\* the label dropped for every unit type without a shortening
_get_units_label_dropping(obs, unit_system) ==
    LET unit_type == getStandardUnitType(unit_system, obs)
    IN  Get(UNIT_REDUCTIONS, unit_type, None)

_get_units_label(obs, unit_system) ==
    LET unit_type == getStandardUnitType(unit_system, obs)
    IN  Get(UNIT_REDUCTIONS, unit_type, unit_type)

PREFIXES ==
    [degree_F |-> "temperature_", degree_C |-> "temperature_", watt |-> "p_",
     watt_hour |-> "e_", volt |-> "v_", amp |-> "a_"]

_get_prefix(obs, unit_system) ==
    LET unit_type == getStandardUnitType(unit_system, obs)
    IN  Get(PREFIXES, unit_type, None)

\* lines 108-111: the name with the units label appended
TemplateLabelled(obs_key, append_units_label, unit_system) ==
    IF append_units_label /\ _get_units_label(obs_key, unit_system) # None
    THEN [name |-> obs_key \o "_" \o _get_units_label(obs_key, unit_system)]
    ELSE EmptyDict

\* lines 112-116: the name with the SEG prefix prepended
TemplatePrefixed(t, obs_key, unit_system, prepend_seg_label) ==
    IF prepend_seg_label /\ _get_prefix(obs_key, unit_system) # None
    THEN Put(t, "name", _get_prefix(obs_key, unit_system) \o Get(t, "name", obs_key))
    ELSE t

\* lines 117-119: the overrides win
TemplateOverridden(t, overrides) ==
    [x \in DOMAIN t \cup (DOMAIN overrides \cap {"name", "format", "units"}) |->
        IF x \in DOMAIN overrides THEN overrides[x] ELSE t[x]]

_get_template(obs_key, overrides, append_units_label, unit_system, prepend_seg_label) ==
    TemplateOverridden(
        TemplatePrefixed(TemplateLabelled(obs_key, append_units_label, unit_system),
                         obs_key, unit_system, prepend_seg_label),
        overrides)

-----------------------------------------------------------------------------
(* Inputs *)

TokenChars == "ZQJKVGYB"

\* a short token (4 characters or fewer) and a long one
Tokens == {SubSeq(TokenChars, 1, n) : n \in {MaxTokenLen - 2, MaxTokenLen}}

\* an option of the configuration: absent, or present with one of vals
Opt(k, vals) == {EmptyDict} \cup {k :> v : v \in vals}

\* the stream sections a configuration may hold
StreamChoices ==
    { "outTemp" :> EmptyDict,
      ("outTemp" :> [name |-> "temp", format |-> "%d"])
        @@ ("barometer" :> [units |-> "mbar"]) }

\* configurations that differ in what SEG.__init__ checks
StartConfigs ==
    { [site |-> t @@ n @@ s @@ u, bindings |-> b, debug |-> "2"] :
        t \in Opt("token", Tokens), n \in Opt("node", {"my hut"}),
        s \in Opt("station", {"old"}),
        u \in Opt("unit_system", {None, "US"}),
        b \in {{}, {"wx_binding"}} }

\* augment_record, with the binding of the archive present
AugmentChoices ==
    { [site |-> EmptyDict, bindings |-> {"wx_binding"}],
      [site |-> "augment_record" :> "false", bindings |-> {"wx_binding"}] }

\* valid configurations that differ in what the worker does with a record
DataConfigs ==
    { [site |-> ("token" :> SubSeq(TokenChars, 1, MaxTokenLen)) @@ ("node" :> "my hut")
                  @@ u @@ o @@ st @@ sk @@ a.site,
       bindings |-> a.bindings, debug |-> d] :
        u \in Opt("unit_system", {None}),
        o \in Opt("obs_to_upload", {"None"}),
        st \in Opt("streams", StreamChoices),
        sk \in Opt("skip_upload", {"true"}),
        a \in AugmentChoices,
        d \in {"1", "2"} }

\* an archive record: dateTime, usUnits and the observations present
MkRecord(us, temp, baro) ==
    [dateTime |-> "1700000000", usUnits |-> us]
    @@ (IF temp = "absent" THEN EmptyDict
        ELSE "outTemp" :> (IF temp = "null" THEN None
                           ELSE IF us = US THEN "50.0" ELSE "10.0"))
    @@ (IF baro = "absent" THEN EmptyDict
        ELSE "barometer" :> (IF us = US THEN "30.0" ELSE "1015.9"))

\* records in both unit systems with the temperature null or not, and one
\* that holds no observation at all
Records ==
    { MkRecord(us, temp, "value") : us \in {US, METRIC}, temp \in {"null", "value"} }
    \cup { MkRecord(US, "absent", "absent") }

Producers == {"p1", "p2"}

\* what the server may answer
ResponseBodies == {"(status ok)", "(status error, bad token)"}

-----------------------------------------------------------------------------
(* SEG.__init__ *)

to_bool(x) == x \in {"true", "True", "yes", "1"}

\* only the token looked up
RequiredOptionsTokenOnly(sd) == "token" \in DOMAIN sd

\* lines 157-159: site_dict['token'], and site_dict['node'] unless 'station' is there
RequiredOptions(sd) ==
    "token" \in DOMAIN sd /\ ("station" \in DOMAIN sd \/ "node" \in DOMAIN sd)

\* the key of the KeyError caught at line 160
MissingOption(sd) == IF "token" \in DOMAIN sd THEN "node" ELSE "token"

\* no default for an absent unit_system
ResolveUnitSystemNoDefault(sd) ==
    LET usn == Get(sd, "unit_system", None)
    IN  IF usn # None THEN Put(sd, "unit_system", unit_constants[usn]) ELSE sd

\* lines 175-177
ResolveUnitSystem(sd) ==
    LET usn == Get(sd, "unit_system", "METRICWX")
    IN  IF usn # None THEN Put(sd, "unit_system", unit_constants[usn]) ELSE sd

\* lines 167-173: defaults, then to_bool
ResolveFlags(sd) ==
    LET d1 == SetDefault(sd, "prepend_seg_label", "True")
        d2 == SetDefault(d1, "append_units_label", "True")
        d3 == SetDefault(d2, "augment_record", "True")
        d4 == SetDefault(d3, "obs_to_upload", "all")
        d5 == Put(d4, "prepend_seg_label", to_bool(d4["prepend_seg_label"]))
        d6 == Put(d5, "append_units_label", to_bool(d5["append_units_label"]))
    IN  Put(d6, "augment_record", to_bool(d6["augment_record"]))

\* lines 185-191: the manager dict, when the record is to be augmented and the
\* binding exists
ResolveManager(sd, cfg) ==
    IF sd["augment_record"] /\ "wx_binding" \in cfg.bindings
    THEN Put(sd, "manager_dict", "wx_binding")
    ELSE sd

\* lines 165-191: site_dict as passed to SEGThread
SiteDict(cfg) ==
    ResolveManager(
        ResolveUnitSystem(ResolveFlags(_compat(cfg.site, "station", "node"))), cfg)

\* the parameters of SEGThread.__init__ (lines 210-217)
ThreadParams ==
    {"token", "node", "unit_system", "streams", "obs_to_upload",
     "append_units_label", "prepend_seg_label", "augment_record", "server_url",
     "skip_upload", "manager_dict", "log_success", "log_failure", "post_interval",
     "max_backlog", "stale", "timeout", "max_tries", "retry_wait"}

\* SEGThread(queue, **site_dict) binds its arguments: every key a parameter,
\* the parameters without default given
ThreadArgsOk(sd) ==
    DOMAIN sd \subseteq ThreadParams /\ {"token", "node"} \subseteq DOMAIN sd

lower(s) == IF s = "ALL" \/ s = "All" THEN "all" ELSE IF s = "None" THEN "none" ELSE s

\* SEGThread.__init__: the attributes of the worker
SEGThread_init(sd) ==
    [token |-> sd["token"],
     node |-> sd["node"],
     upload_all |-> (lower(Get(sd, "obs_to_upload", "all")) = "all"),
     append_units_label |-> Get(sd, "append_units_label", TRUE),
     prepend_seg_label |-> Get(sd, "prepend_seg_label", TRUE),
     streams |-> Get(sd, "streams", EmptyDict),
     skip_upload |-> to_bool(Get(sd, "skip_upload", "False")),
     unit_system |-> Get(sd, "unit_system", None),
     augment_record |-> Get(sd, "augment_record", TRUE),
     manager_dict |-> Get(sd, "manager_dict", None)]

\* lines 198-201
StartupLog(cfg, sd) ==
    (IF Get(cfg.site, "unit_system", "METRICWX") # None
     THEN <<"desired unit system is " \o Get(cfg.site, "unit_system", "METRICWX")>>
     ELSE <<>>)
    \o <<"Data will be uploaded for node=" \o sd["node"]
           \o " token=" \o _obfuscate(sd["token"])>>

SEG_init ==
    /\ svc = "init"
    /\ IF ~RequiredOptions(config_dict.site)
       THEN /\ svc' = "disabled"
            /\ log' = <<"service version is X",
                        "Data will not be posted: Missing option "
                            \o MissingOption(config_dict.site)>>
            /\ UNCHANGED <<site_dict, archive_queue, archive_thread, bound>>
       ELSE LET sd == SiteDict(config_dict)
            IN  /\ site_dict' = sd
                /\ archive_queue' = <<>>
                /\ IF ThreadArgsOk(sd)
                   THEN /\ svc' = "running"
                        /\ archive_thread' = SEGThread_init(sd)
                        /\ bound' = TRUE
                        /\ log' = <<"service version is X">> \o StartupLog(config_dict, sd)
                   ELSE /\ svc' = "raised"
                        /\ log' = <<"service version is X">>
                        /\ UNCHANGED <<archive_thread, bound>>
    /\ UNCHANGED <<config_dict, templates, pc, record, record_in, data, uploaders,
                   targs, tresult>>

\* the producer uploads the record itself
new_archive_record_posting(p, r) ==
    /\ bound
    /\ Len(archive_queue) < MaxQueue
    /\ archive_queue' = Append(archive_queue, r)
    /\ uploaders' = uploaders \cup {p}
    /\ log' = <<>>
    /\ UNCHANGED <<config_dict, svc, site_dict, archive_thread, bound, templates, pc,
                   record, record_in, data, targs, tresult>>

\* new_archive_record, called by producer p with an event holding record r
new_archive_record(p, r) ==
    /\ bound
    /\ Len(archive_queue) < MaxQueue
    /\ archive_queue' = Append(archive_queue, r)
    /\ log' = <<>>
    /\ UNCHANGED <<config_dict, svc, site_dict, archive_thread, bound, templates, pc,
                   record, record_in, data, uploaders, targs, tresult>>

-----------------------------------------------------------------------------
(* SEGThread *)

\* the order in which a dict of templates is iterated
KeyOrder == <<"dateTime", "usUnits", "outTemp", "barometer", "dayRain">>

\* int(x) and '%d' % x of a non-negative number: the text before the point
IntText(s) ==
    IF Contains(s, ".")
    THEN SubSeq(s, 1, (CHOOSE i \in 1..Len(s) : SubSeq(s, i, i) = "."
                           /\ ~Contains(SubSeq(s, 1, i - 1), ".")) - 1)
    ELSE s

\* fmt % v
Format(fmt, v) == IF fmt = "%d" THEN IntText(v) ELSE v

\* urllib.quote_plus: a space becomes a plus sign
RECURSIVE quote_plus(_)
quote_plus(s) ==
    IF s = "" THEN ""
    ELSE (IF SubSeq(s, 1, 1) = " " THEN "+" ELSE SubSeq(s, 1, 1))
             \o quote_plus(SubSeq(s, 2, Len(s)))

\* the length of the longest prefix of s without a space: what [^ ]* matches
RECURSIVE NonSpaceRun(_)
NonSpaceRun(s) ==
    IF s = "" \/ SubSeq(s, 1, 1) = " " THEN 0
    ELSE 1 + NonSpaceRun(SubSeq(s, 2, Len(s)))

\* re.sub(r"site [^ ]*", "site XXX", s)
RECURSIVE MaskSite(_)
MaskSite(s) ==
    IF ~Contains(s, "site ") THEN s
    ELSE LET i == CHOOSE j \in 1..Len(s) :
                    /\ SubSeq(s, j, j + 4) = "site "
                    /\ ~Contains(SubSeq(s, 1, j + 3), "site ")
             rest == SubSeq(s, i + 5, Len(s))
         IN  SubSeq(s, 1, i - 1) \o "site XXX"
                 \o MaskSite(SubSeq(rest, NonSpaceRun(rest) + 1, Len(rest)))

\* lines 264-280 in upload-all mode: a template for every key of the record
\* that has none yet
TemplatesAll(th, tmpl, r) ==
    [f \in DOMAIN tmpl \cup DOMAIN r |->
        IF f \in DOMAIN tmpl THEN tmpl[f]
        ELSE _get_template(f, Get(th.streams, f, EmptyDict), th.append_units_label,
                           r["usUnits"], th.prepend_seg_label)]

\* the templates of the streams built again on every call
TemplatesSelectedRebuilt(th, tmpl, r) ==
    [f \in DOMAIN th.streams |->
        _get_template(f, th.streams[f], th.append_units_label, r["usUnits"],
                      th.prepend_seg_label)]

\* lines 275-280 in upload-selected mode: the templates of the streams, built
\* while there are none
TemplatesSelected(th, tmpl, r) ==
    IF DOMAIN tmpl = {}
    THEN [f \in DOMAIN th.streams |->
            _get_template(f, th.streams[f], th.append_units_label, r["usUnits"],
                          th.prepend_seg_label)]
    ELSE tmpl

\* lines 264-280
Resolve(th, tmpl, r) ==
    IF th.upload_all THEN TemplatesAll(th, tmpl, r) ELSE TemplatesSelected(th, tmpl, r)

\* lines 286-297: the element of key k
Element(t, k, r) ==
    LET v0 == r[k]
        name == Get(t, "name", k)
        fmt == Get(t, "format", "%s")
        to_units == Get(t, "units", None)
        v == IF to_units # None
             THEN convert(v0, getStandardUnitType(r["usUnits"], k), to_units)
             ELSE v0
    IN  "(" \o name \o " " \o Format(fmt, v) \o ")"

\* the keys that give an element: a template and a value that is not None
Uploaded(tmpl, r) == {k \in DOMAIN tmpl : Get(r, k, None) # None}

\* lines 284-297
Elements(tmpl, r) ==
    LET ks == SelectSeq(KeyOrder, LAMBDA k : k \in Uploaded(tmpl, r))
    IN  [i \in 1..Len(ks) |-> Element(tmpl[ks[i]], ks[i], r)]

\* lines 298-307: None, or the payload
Payload(th, tmpl, r) ==
    LET elements == Elements(tmpl, r)
    IN  IF Len(elements) = 0 THEN None
        ELSE "data_post=(site " \o th.token \o " "
                \o "(node " \o quote_plus(th.node) \o " " \o IntText(r["dateTime"]) \o " "
                \o Join(elements) \o ")" \o ")"

\* get_data(record): the templates afterwards and the value returned
get_data(th, tmpl, r) ==
    LET t == Resolve(th, tmpl, r)
    IN  [templates |-> t, data |-> Payload(th, t, r)]

\* lines 308-309
DebugLog(cfg, d) ==
    IF d # None /\ cfg.debug = "2" THEN <<"data: " \o MaskSite(d)>> ELSE <<>>

\* RESTThread.get_record(record, dbm): the day's rain from the archive, when
\* the archive has one and the record does not
get_record(r, found) ==
    IF found /\ ~("dayRain" \in DOMAIN r)
    THEN Put(r, "dayRain", IF r["usUnits"] = US THEN "1.0" ELSE "2.54")
    ELSE r

\* lines 242-245: the record handed to get_data
Prepared(th, r, found) ==
    LET r1 == IF th.augment_record /\ th.manager_dict # None
              THEN get_record(r, found) ELSE r
    IN  IF th.unit_system # None THEN to_std_system(r1, th.unit_system) ELSE r1

\* lines 247-253: post_with_retries is called
Posts(th, d) == ~th.skip_upload

\* process_record(record, dbm), up to the call of post_with_retries
process_record(r, found) ==
    LET th == archive_thread
        r2 == Prepared(th, r, found)
        g == get_data(th, templates, r2)
    IN  /\ record_in' = r
        /\ record' = r2
        /\ templates' = g.templates
        /\ data' = g.data
        /\ IF Posts(th, g.data)
           THEN /\ pc' = "post"
                /\ uploaders' = uploaders \cup {"worker"}
                /\ log' = DebugLog(config_dict, g.data)
           ELSE /\ log' = DebugLog(config_dict, g.data) \o <<"skipping upload">>
                /\ UNCHANGED <<pc, uploaders>>

\* the worker takes the next record off the queue and either skips it (stale,
\* inside the post interval) or processes it
run_loop ==
    /\ svc = "running"
    /\ pc = "wait"
    /\ archive_queue # <<>>
    /\ archive_queue' = Tail(archive_queue)
    /\ \E keep \in BOOLEAN, found \in BOOLEAN :
          /\ found => archive_thread.augment_record /\ archive_thread.manager_dict # None
          /\ found => keep
          /\ IF keep
             THEN process_record(Head(archive_queue), found)
             ELSE /\ log' = <<>>
                  /\ UNCHANGED <<templates, pc, record, record_in, data, uploaders>>
    /\ UNCHANGED <<config_dict, svc, site_dict, archive_thread, bound, targs, tresult>>

\* check_response(response): the body holds '(status ok'
check_response(txt) == Contains(txt, "(status ok")

\* post_with_retries returns or raises; the worker goes back to the queue
post_done ==
    /\ pc = "post"
    /\ pc' = "wait"
    /\ uploaders' = uploaders \ {"worker"}
    /\ \E txt \in ResponseBodies :
          log' = IF check_response(txt) THEN <<"Published record">>
                 ELSE <<"Failed to publish record: Server returned '" \o txt \o "'">>
    /\ UNCHANGED <<config_dict, svc, site_dict, archive_queue, archive_thread, bound,
                   templates, record, record_in, data, targs, tresult>>

-----------------------------------------------------------------------------
(* Specifications *)

InitService(configs) ==
    /\ config_dict \in configs
    /\ svc = "init"
    /\ site_dict = EmptyDict
    /\ archive_queue = NoQueue
    /\ archive_thread = NoThread
    /\ bound = FALSE
    /\ templates = EmptyDict
    /\ pc = "wait"
    /\ record = NoRecord
    /\ record_in = NoRecord
    /\ data = NoData
    /\ uploaders = {}
    /\ log = <<>>
    /\ targs = EmptyDict
    /\ tresult = NoResult

Init == InitService(StartConfigs)

InitData == InitService(DataConfigs)

Next ==
    \/ SEG_init
    \/ \E p \in Producers, r \in Records : new_archive_record(p, r)
    \/ run_loop
    \/ post_done

\* the service started with any configuration
Spec == Init /\ [][Next]_vars

\* the service started with a valid configuration
SpecData == InitData /\ [][Next]_vars

-----------------------------------------------------------------------------
(* _get_template called on its own *)

TemplateArgs ==
    [obs_key : {"dateTime", "usUnits", "outTemp", "barometer", "outHumidity",
                "dayRain", "windSpeed"},
     overrides : {EmptyDict, [name |-> "temp"], [format |-> "%d"], [units |-> "mbar"]},
     append_units_label : BOOLEAN,
     unit_system : {US, METRIC, METRICWX},
     prepend_seg_label : BOOLEAN]

InitTemplate ==
    /\ config_dict = [site |-> EmptyDict, bindings |-> {}, debug |-> "1"]
    /\ svc = "init"
    /\ site_dict = EmptyDict
    /\ archive_queue = NoQueue
    /\ archive_thread = NoThread
    /\ bound = FALSE
    /\ templates = EmptyDict
    /\ pc = "wait"
    /\ record = NoRecord
    /\ record_in = NoRecord
    /\ data = NoData
    /\ uploaders = {}
    /\ log = <<>>
    /\ targs \in TemplateArgs
    /\ tresult = NoResult

call_get_template ==
    /\ tresult = NoResult
    /\ targs # EmptyDict
    /\ tresult' = _get_template(targs.obs_key, targs.overrides, targs.append_units_label,
                                targs.unit_system, targs.prepend_seg_label)
    /\ UNCHANGED <<svcVars, targs>>

NextTemplate == call_get_template

\* _get_template applied to every argument tuple of TemplateArgs
SpecTemplate == InitTemplate /\ [][NextTemplate]_vars

-----------------------------------------------------------------------------
(* Properties *)

Running == svc = "running"
Called == Running /\ record # NoRecord
Site == config_dict.site

\* C1: a record for which get_data returns None is a successful no-op: no
\* HTTP attempt sequence is started for it and no failure is reported.
C1_NonePayloadIsNoOp ==
    (Called /\ data = None) =>
        /\ pc = "wait"
        /\ uploaders = {}
        /\ \A i \in DOMAIN log : ~Contains(log[i], "Failed")

\* C2: in upload-selected mode the templates are those of the streams from the
\* first get_data call on and never change afterwards, and no payload names a
\* record key that is not a stream; with streams = {outTemp: {}} a record with
\* outTemp and barometer uploads outTemp only.
C2_SelectedTemplatesFixed ==
    /\ [](Running /\ ~archive_thread.upload_all =>
            /\ ~Called => templates = EmptyDict
            /\ Called =>
                /\ DOMAIN templates = DOMAIN archive_thread.streams
                /\ Uploaded(templates, record) \subseteq DOMAIN archive_thread.streams
                /\ \A k \in DOMAIN record \ DOMAIN archive_thread.streams :
                       ~Contains(data, k)
                /\ (/\ archive_thread.streams = ("outTemp" :> EmptyDict)
                    /\ Get(record, "outTemp", None) # None)
                      => Contains(data, "outTemp"))
    /\ [][(Called /\ ~archive_thread.upload_all) => templates' = templates]_vars

\* C2 witness: the templates were built from a US record and a later METRIC
\* record with outTemp and barometer is uploaded through them
C2_Witness ==
    /\ Called
    /\ ~archive_thread.upload_all
    /\ archive_thread.streams = ("outTemp" :> EmptyDict)
    /\ templates["outTemp"] = [name |-> "temperature_outTemp_F"]
    /\ record["usUnits"] = METRIC
    /\ {"outTemp", "barometer"} \subseteq DOMAIN record
    /\ Contains(data, "(temperature_outTemp_F 10.0)")

\* C3 as stated: with unit_system absent or null the worker has no forced unit
\* system and every record reaches get_data in its original usUnits.
C3_AbsentOrNullNotForced ==
    (Running /\ Get(Site, "unit_system", None) = None) =>
        /\ archive_thread.unit_system = None
        /\ Called => record["usUnits"] = record_in["usUnits"]

\* C3 amended: with unit_system null the worker has no forced unit system and
\* the record reaches get_data with its usUnits and values unchanged; with
\* unit_system absent the worker is built with METRICWX and every record
\* reaches get_data converted to METRICWX.
C3_NullNotForcedAbsentMetricWX ==
    Running =>
        /\ ("unit_system" \in DOMAIN Site /\ Site["unit_system"] = None) =>
              /\ archive_thread.unit_system = None
              /\ Called => /\ record["usUnits"] = record_in["usUnits"]
                           /\ \A k \in DOMAIN record_in : record[k] = record_in[k]
        /\ ~("unit_system" \in DOMAIN Site) =>
              /\ archive_thread.unit_system = METRICWX
              /\ Called => record["usUnits"] = METRICWX

\* C3 witness: no unit_system configured, a US record reached get_data as METRICWX
C3_Witness ==
    /\ Called
    /\ ~("unit_system" \in DOMAIN Site)
    /\ record_in["usUnits"] = US
    /\ record["usUnits"] = METRICWX
    /\ Get(record_in, "outTemp", None) = "50.0"
    /\ record["outTemp"] = "10.0"

\* C4: when token is missing, or node and station both are, the start logs the
\* error and returns without raising, and the upload path stays disabled: no
\* queue, no worker thread, no binding, no record enqueued or uploaded.
C4_MissingOptionDisables ==
    (svc # "init" /\ (~("token" \in DOMAIN Site)
                        \/ (~("node" \in DOMAIN Site) /\ ~("station" \in DOMAIN Site)))) =>
        /\ svc = "disabled"
        /\ \E i \in DOMAIN log : Contains(log[i], "Data will not be posted: Missing option")
        /\ archive_queue = NoQueue
        /\ archive_thread = NoThread
        /\ ~bound
        /\ record = NoRecord /\ record_in = NoRecord /\ data = NoData
        /\ pc = "wait" /\ uploaders = {}
        /\ ~ENABLED (\E p \in Producers, r \in Records : new_archive_record(p, r))
        /\ ~ENABLED run_loop

\* C4 witness: a token but neither node nor station, and the start has returned
C4_Witness ==
    /\ svc = "disabled"
    /\ "token" \in DOMAIN Site
    /\ ~("node" \in DOMAIN Site) /\ ~("station" \in DOMAIN Site)

\* C5: with token and station configured (node configured or not) the worker
\* configuration carries node and no station, and the worker is constructed
\* and started.
C5_StationRenamed ==
    (svc # "init" /\ {"token", "station"} \subseteq DOMAIN Site) =>
        /\ svc = "running"
        /\ "node" \in DOMAIN site_dict
        /\ ~("station" \in DOMAIN site_dict)
        /\ archive_thread # NoThread
        /\ bound

\* C6: no diagnostic holds any character of the token.
C6_TokenNeverLogged ==
    "token" \in DOMAIN Site =>
        \A i \in DOMAIN log : \A j \in 1..Len(Site["token"]) :
            ~Contains(log[i], SubSeq(Site["token"], j, j))

\* C8: producers only push onto the queue, and at most one HTTP attempt
\* sequence is in flight at any time, that of the worker.
C8_OneUploadInFlight ==
    /\ [](/\ Cardinality(uploaders) <= 1
          /\ uploaders \subseteq {"worker"}
          /\ (pc = "post") = (uploaders = {"worker"}))
    /\ [][(bound /\ Len(archive_queue') > Len(archive_queue)) =>
            /\ archive_queue' = Append(archive_queue, archive_queue'[Len(archive_queue')])
            /\ UNCHANGED <<config_dict, svc, site_dict, archive_thread, bound, templates,
                           pc, record, record_in, data, uploaders>>]_vars

\* C8 witness: a record was enqueued while the worker's upload is in flight
C8_Witness ==
    /\ Running
    /\ uploaders = {"worker"}
    /\ archive_queue # <<>>

\* the templates of the cached keys computed anew from the record's unit system
Recomputed(th, tmpl, r) ==
    [f \in DOMAIN tmpl |->
        _get_template(f, Get(th.streams, f, EmptyDict), th.append_units_label,
                      r["usUnits"], th.prepend_seg_label)]

\* C9: the payload built through the cached templates is the payload built
\* through templates computed anew from the current record's unit system.
C9_CacheTransparent ==
    Called => data = Payload(archive_thread, Recomputed(archive_thread, templates, record),
                             record)

\* the display name of the template, the key when the template has none
DisplayName == Get(tresult, "name", targs.obs_key)

\* the SEG prefix the call gives the name
PrefixOfCall ==
    IF targs.prepend_seg_label /\ _get_prefix(targs.obs_key, targs.unit_system) # None
    THEN _get_prefix(targs.obs_key, targs.unit_system)
    ELSE ""

UnitTypeOfCall == getStandardUnitType(targs.unit_system, targs.obs_key)

\* the unit types that have a shortening
Shortened ==
    [degree_F |-> "F", degree_C |-> "C", inch |-> "in", mile_per_hour |-> "mph",
     km_per_hour |-> "kph", meter_per_second |-> "mps"]

LabelledCall ==
    /\ tresult # NoResult
    /\ targs.append_units_label
    /\ ~("name" \in DOMAIN targs.overrides)

\* C10 as stated: with append_units_label and no name override, the name gets
\* '_<short label>' when the unit type has a shortening and stays the key (plus
\* the prefix) for every other unit type.
C10_LabelOnlyWhenShortened ==
    LabelledCall =>
        DisplayName = PrefixOfCall \o targs.obs_key
                        \o (IF UnitTypeOfCall \in DOMAIN Shortened
                            THEN "_" \o Shortened[UnitTypeOfCall] ELSE "")

\* C10 amended: the name gets '_<short label>' when the unit type has a
\* shortening, stays the key (plus the prefix) when the observation has no unit
\* type or its unit type is unix_epoch, percent, degree_compass or uv_index, and
\* gets '_<unit type>' in full for every other unit type.
C10_LabelShortenedOrInFull ==
    LabelledCall =>
        DisplayName = PrefixOfCall \o targs.obs_key
                        \o (IF UnitTypeOfCall \in DOMAIN Shortened
                            THEN "_" \o Shortened[UnitTypeOfCall]
                            ELSE IF UnitTypeOfCall \in {None, "unix_epoch", "percent",
                                                        "degree_compass", "uv_index"}
                            THEN ""
                            ELSE "_" \o UnitTypeOfCall)

\* C10 witness: barometer under US units, whose unit type inHg has no shortening
C10_Witness ==
    /\ LabelledCall
    /\ targs.obs_key = "barometer"
    /\ targs.unit_system = US
    /\ DisplayName = "barometer_inHg"

====
